---------------------------- MODULE Spec2Model ----------------------------
(***************************************************************************)
(* A model of the Strava shoe comparison tool (analyzer.py, main.py).      *)
(*                                                                         *)
(* Activities are Python dicts: functions from a subset of the field names *)
(* to values, read with dict.get.  Python ints are exact integers.  A      *)
(* Python float is a binary float of MantBits significant bits (binary64   *)
(* has 53) with an unbounded exponent, and every float operation is the    *)
(* exact operation rounded to the nearest float, ties to even.             *)
(* Strings that the code inspects are sequences of one-character strings.  *)
(***************************************************************************)
EXTENDS Integers, Sequences, FiniteSets, TLC

VARIABLES
    pc,            \* position of the modelled caller
    activities,    \* the list of activity dicts under analysis
    pace,          \* outcome of calculate_average_pace(activities)
    gap,           \* outcome of calculate_estimated_gap(activities)
    stats,         \* outcome of calculate_shoe_statistics(activities)
    race_input,    \* the activity dict handed to is_race
    race,          \* outcome of is_race(activity)
    pace_minutes,  \* the float handed to format_pace
    formatted,     \* outcome of format_pace(pace_minutes)
    all_activities,      \* main: the activities fetched from the API
    running_activities,  \* main: filter_running_activities(all_activities)
    grouped_activities,  \* main: the dict of group_by_gear, in insertion order
    gear_responses,      \* what the API answers to get_gear, per gear id
    fetched,             \* the gear ids handed to client.get_gear, in order
    gear_names,          \* main: outcome of get_gear_names
    results,             \* main: the list of per-shoe dicts
    displayed,           \* outcome of display_results: the shoes as printed
    after_timestamp,     \* get_all_activities_since: int(since_date.timestamp())
    page,                \* get_all_activities_since: the next page to request
    page_requests,       \* the parameters of each get_activities call, in order
    page_responses,      \* what the API answered to each of them, in order
    collected,           \* get_all_activities_since: its all_activities list
    fetch_result,        \* outcome of get_all_activities_since
    env_file,            \* the .env file: whether it exists, and its text
    env_writable,        \* whether the .env file can be opened for writing
    current_time,        \* ensure_authentication: int(time.time())
    auth_tokens,         \* ensure_authentication: its tokens variable
    auth_calls,          \* the token requests and save_tokens calls, in order
    auth_result          \* outcome of ensure_authentication

estimatorVars == <<activities, pace, gap, stats>>
classifierVars == <<race_input, race>>
formatVars == <<pace_minutes, formatted>>
mainVars ==
    <<all_activities, running_activities, grouped_activities, gear_responses,
      fetched, gear_names, results, displayed>>
pagingVars ==
    <<after_timestamp, page, page_requests, page_responses, collected,
      fetch_result>>
authVars ==
    <<env_file, env_writable, current_time, auth_tokens, auth_calls,
      auth_result>>
vars ==
    <<pc, estimatorVars, classifierVars, formatVars, mainVars, pagingVars,
      authVars>>

(***************************************************************************)
(* Bounds of the model.                                                    *)
(***************************************************************************)
MantBits == 12      \* significant bits of a float
MaxLen == 2         \* longest activity list handed to the estimator
MaxWords == 3       \* most word fragments in an activity name
MaxActivities == 3  \* most activities fetched by main
MaxPages == 4       \* most pages requested from the activities API
MaxChunks == 2      \* most chunks of lines in an env file
MaxSaves == 2       \* most save_tokens calls in a row

(***************************************************************************)
(* Floats.  A float is [m, e], the number m * 2^e, with m odd or m = e = 0 *)
(* and |m| < 2^MantBits.                                                   *)
(***************************************************************************)
Abs(x) == IF x < 0 THEN -x ELSE x

RECURSIVE GCD(_, _)
GCD(a, b) == IF b = 0 THEN a ELSE GCD(b, a % b)

RECURSIVE Pow2(_)
Pow2(k) == IF k = 0 THEN 1 ELSE 2 * Pow2(k - 1)

\* The largest e with 2^e <= n/d, for n, d > 0.
RECURSIVE FloorLog2(_, _)
FloorLog2(n, d) ==
    IF n >= 2 * d THEN FloorLog2(n, 2 * d) + 1
    ELSE IF n < d THEN FloorLog2(2 * n, d) - 1
    ELSE 0

RECURSIVE Canon(_, _)
Canon(m, e) ==
    IF m = 0 THEN [m |-> 0, e |-> 0]
    ELSE IF m % 2 = 0 THEN Canon(m \div 2, e + 1)
    ELSE [m |-> m, e |-> e]

Zero == [m |-> 0, e |-> 0]
Scale(f, by) == IF f.m = 0 THEN f ELSE [m |-> f.m, e |-> f.e + by]
Neg(f) == [m |-> -f.m, e |-> f.e]

\* Round to nearest, ties to the even mantissa: fl + rem / y, times 2^e.
Nearest(s, fl, rem, y, e) ==
    Canon(s * (IF 2 * rem > y \/ (2 * rem = y /\ fl % 2 = 1) THEN fl + 1 ELSE fl), e)

RoundQuotient(s, x, y, e) == Nearest(s, x \div y, x % y, y, e)

\* n / d scaled by 2^k so that the quotient has MantBits bits.
RoundAt(s, n, d, k, c) ==
    IF k >= 0
    THEN RoundQuotient(s, n * (Pow2(k) \div c), d \div c, -k)
    ELSE RoundQuotient(s, n, d * Pow2(-k), -k)

RoundScaled(s, n, d, k) ==
    RoundAt(s, n, d, k, IF k >= 0 THEN GCD(Pow2(k), d) ELSE 1)

RoundReduced(s, n, d) == RoundScaled(s, n, d, MantBits - 1 - FloorLog2(n, d))

RoundPositive(s, n, d, g) == RoundReduced(s, n \div g, d \div g)

\* n / d correctly rounded: the nearest float, ties to the even mantissa.
\* This is Python's int / int, and with d = 1 the conversion float(n).
RoundRatio(n, d) ==
    IF n = 0 THEN Zero
    ELSE RoundPositive(IF (n < 0) = (d < 0) THEN 1 ELSE -1,
                       Abs(n), Abs(d), GCD(Abs(n), Abs(d)))

FromInt(i) == RoundRatio(i, 1)

FMul(a, b) == Scale(RoundRatio(a.m * b.m, 1), a.e + b.e)

\* b is not zero: the callers raise ZeroDivisionError before dividing.
FDiv(a, b) == Scale(RoundRatio(a.m, b.m), a.e - b.e)

\* hi has the larger exponent; lo is dropped when it is below an eighth of
\* hi's unit in the last place, where it cannot change the rounded sum.
AddAligned(hi, lo) ==
    IF hi.e - lo.e + FloorLog2(Abs(hi.m), 1) + 1 >= 2 * MantBits + 3 THEN hi
    ELSE Scale(RoundRatio(hi.m * Pow2(hi.e - lo.e) + lo.m, 1), lo.e)

FAdd(a, b) ==
    IF a.m = 0 THEN b
    ELSE IF b.m = 0 THEN a
    ELSE AddAligned(IF a.e >= b.e THEN a ELSE b, IF a.e >= b.e THEN b ELSE a)

FSub(a, b) == FAdd(a, Neg(b))
FLess(a, b) == FSub(b, a).m > 0
FLeq(a, b) == FSub(b, a).m >= 0

(***************************************************************************)
(* dict.get(key, default)                                                  *)
(***************************************************************************)
Get(activity, key, default) ==
    IF key \in DOMAIN activity THEN activity[key] ELSE default

\* Outcomes of a call: a returned value or a raised exception.
Returned(v) == [status |-> "returned", val |-> v]
Raised(e) == [status |-> "raised", val |-> e]
Pending == [status |-> "pending", val |-> "none"]

(***************************************************************************)
(* calculate_average_pace                                                  *)
(***************************************************************************)
\* The loop's skip test (analyzer.py:68).
SkipNoDistance(distance, moving_time) == distance < 0 \/ moving_time <= 0
Skipped(distance, moving_time) == distance <= 0 \/ moving_time <= 0

\* The loop of lines 63-72: <<total_distance_m, total_time_s>>, both ints.
RECURSIVE PaceTotals(_, _, _)
PaceStep(acts, total_distance_m, total_time_s, distance, moving_time) ==
    IF Skipped(distance, moving_time)
    THEN PaceTotals(Tail(acts), total_distance_m, total_time_s)
    ELSE PaceTotals(Tail(acts), total_distance_m + distance,
                    total_time_s + moving_time)

PaceTotals(acts, total_distance_m, total_time_s) ==
    IF acts = <<>> THEN <<total_distance_m, total_time_s>>
    ELSE PaceStep(acts, total_distance_m, total_time_s,
                  Get(Head(acts), "distance", 0),
                  Get(Head(acts), "moving_time", 0))

\* Lines 74-81: total / (total_distance_m / 1000) / 60, in floats.
MinutesPerKm(total, total_distance_m) ==
    FDiv(FDiv(total, RoundRatio(total_distance_m, 1000)), FromInt(60))

\* Lines 74-81.
PaceOfTotals(t) ==
    IF t[1] = 0 THEN Returned(Zero)
    ELSE Returned(MinutesPerKm(FromInt(t[2]), t[1]))

calculate_average_pace(acts) == PaceOfTotals(PaceTotals(acts, 0, 0))

(***************************************************************************)
(* calculate_estimated_gap                                                 *)
(***************************************************************************)
ADJUSTMENT_COEFFICIENT == RoundRatio(33, 1000)

grade_percent(elevation_gain, distance) ==
    IF distance > 0
    THEN FMul(RoundRatio(elevation_gain, distance), FromInt(100))
    ELSE Zero

ElevationFactorDownhill(grade) == FSub(FromInt(1), FMul(grade, ADJUSTMENT_COEFFICIENT))
elevation_factor(grade) == FAdd(FromInt(1), FMul(grade, ADJUSTMENT_COEFFICIENT))

\* Lines 126-130 for one activity that is not skipped: the totals, or
\* raised when line 127 divides by a zero elevation factor.
RECURSIVE GapTotals(_, _, _)
GapAdjust(acts, total_distance_m, total_adjusted_time_s, distance, moving_time, factor) ==
    IF factor = Zero
    THEN [raised |-> TRUE, distance |-> total_distance_m,
          time |-> total_adjusted_time_s]
    ELSE GapTotals(Tail(acts), total_distance_m + distance,
                   FAdd(total_adjusted_time_s, FDiv(FromInt(moving_time), factor)))

GapStep(acts, total_distance_m, total_adjusted_time_s, distance, moving_time, elevation_gain) ==
    IF Skipped(distance, moving_time)
    THEN GapTotals(Tail(acts), total_distance_m, total_adjusted_time_s)
    ELSE GapAdjust(acts, total_distance_m, total_adjusted_time_s, distance, moving_time,
                   elevation_factor(grade_percent(elevation_gain, distance)))

\* The loop of lines 109-130.
GapTotals(acts, total_distance_m, total_adjusted_time_s) ==
    IF acts = <<>>
    THEN [raised |-> FALSE, distance |-> total_distance_m,
          time |-> total_adjusted_time_s]
    ELSE GapStep(acts, total_distance_m, total_adjusted_time_s,
                 Get(Head(acts), "distance", 0),
                 Get(Head(acts), "moving_time", 0),
                 Get(Head(acts), "total_elevation_gain", 0))

\* Lines 132-139.
GapOfTotals(t) ==
    IF t.raised THEN Raised("ZeroDivisionError")
    ELSE IF t.distance = 0 THEN Returned(Zero)
    ELSE Returned(MinutesPerKm(t.time, t.distance))

calculate_estimated_gap(acts) == GapOfTotals(GapTotals(acts, 0, Zero))

(***************************************************************************)
(* is_race and filter_non_race_activities                                  *)
(***************************************************************************)
UpperCase ==
    <<"A", "B", "C", "D", "E", "F", "G", "H", "I", "J", "K", "L", "M",
      "N", "O", "P", "Q", "R", "S", "T", "U", "V", "W", "X", "Y", "Z">>
LowerCase ==
    <<"a", "b", "c", "d", "e", "f", "g", "h", "i", "j", "k", "l", "m",
      "n", "o", "p", "q", "r", "s", "t", "u", "v", "w", "x", "y", "z">>

\* str.lower() on ASCII text.
LowerChar(c) ==
    IF \E j \in 1..Len(UpperCase) : UpperCase[j] = c
    THEN LowerCase[CHOOSE j \in 1..Len(UpperCase) : UpperCase[j] = c]
    ELSE c

lower(s) == [i \in 1..Len(s) |-> LowerChar(s[i])]

\* keyword in name: a scan for the first position where keyword matches.
RECURSIVE FindFrom(_, _, _)
FindFrom(keyword, name, i) ==
    IF i + Len(keyword) - 1 > Len(name) THEN FALSE
    ELSE IF SubSeq(name, i, i + Len(keyword) - 1) = keyword THEN TRUE
    ELSE FindFrom(keyword, name, i + 1)

In(keyword, name) == FindFrom(keyword, name, 1)

Kw_race == <<"r", "a", "c", "e">>
Kw_parkrun == <<"p", "a", "r", "k", "r", "u", "n">>
Kw_marathon == <<"m", "a", "r", "a", "t", "h", "o", "n">>
Kw_half_marathon == <<"h", "a", "l", "f", " ">> \o Kw_marathon
Kw_10k_race == <<"1", "0", "k", " ">> \o Kw_race
Kw_5k_race == <<"5", "k", " ">> \o Kw_race

race_keywords ==
    <<Kw_race, Kw_parkrun, Kw_marathon, Kw_half_marathon, Kw_10k_race, Kw_5k_race>>

NameAsGiven(activity) == Get(activity, "name", <<>>)
LoweredName(activity) == lower(Get(activity, "name", <<>>))

is_race(activity) ==
    \/ "workout_type" \in DOMAIN activity /\ activity["workout_type"] = 1
    \/ \E k \in 1..Len(race_keywords) : In(race_keywords[k], LoweredName(activity))

KeepRaces(activity) == is_race(activity)
KeptByNonRaceFilter(activity) == ~is_race(activity)

filter_non_race_activities(acts) == SelectSeq(acts, KeptByNonRaceFilter)

(***************************************************************************)
(* calculate_shoe_statistics                                               *)
(***************************************************************************)
RECURSIVE SumDistance(_)
SumDistance(acts) ==
    IF acts = <<>> THEN 0
    ELSE Get(Head(acts), "distance", 0) + SumDistance(Tail(acts))

\* Lines 240-248: the dict, unless one of the GAP calls raised.
StatisticsOf(acts, non_race_activities, p, g, pn, gn) ==
    IF g.status = "raised" THEN g
    ELSE IF gn.status = "raised" THEN gn
    ELSE Returned(
        [activity_count |-> Len(acts),
         total_distance_km |-> RoundRatio(SumDistance(acts), 1000),
         average_pace_min_per_km |-> p.val,
         estimated_gap_min_per_km |-> g.val,
         non_race_count |-> Len(non_race_activities),
         average_pace_non_race_min_per_km |-> pn.val,
         estimated_gap_non_race_min_per_km |-> gn.val])

StatisticsWith(acts, non_race_activities) ==
    StatisticsOf(acts, non_race_activities,
                 calculate_average_pace(acts),
                 calculate_estimated_gap(acts),
                 calculate_average_pace(non_race_activities),
                 calculate_estimated_gap(non_race_activities))

calculate_shoe_statistics(acts) ==
    StatisticsWith(acts, filter_non_race_activities(acts))

(***************************************************************************)
(* The estimator applied to bounded inputs.                                *)
(***************************************************************************)
Field(key, values) == {<<>>} \cup {key :> v : v \in values}

\* Every combination of absent and positive fields with each sign of gain,
\* two records with a negative distance or time, and the valid records once
\* more flagged as races.
Measurements ==
    {d @@ t @@ e :
        d \in Field("distance", {33, 20000}),
        t \in Field("moving_time", {300}),
        e \in Field("total_elevation_gain", {-1000, -10, 1})}
    \cup {[distance |-> -5, moving_time |-> 300],
          [distance |-> 33, moving_time |-> -10, total_elevation_gain |-> 1]}

NumericActivities ==
    Measurements \cup
    {a @@ ("workout_type" :> 1) :
        a \in {x \in Measurements : Get(x, "distance", 0) > 0 /\ Get(x, "moving_time", 0) > 0}}

RECURSIVE ListsOfLen(_, _)
ListsOfLen(S, n) ==
    IF n = 0 THEN {<<>>}
    ELSE {Append(l, x) : l \in ListsOfLen(S, n - 1), x \in S}

ListsUpTo(S, n) == UNION {ListsOfLen(S, k) : k \in 0..n}

EstimatorIdle ==
    /\ activities = <<>>
    /\ pace = Pending
    /\ gap = Pending
    /\ stats = Pending

ClassifierIdle ==
    /\ race_input = <<>>
    /\ race = Pending

FormatIdle ==
    /\ pace_minutes = Zero
    /\ formatted = Pending

\* The env file when os.path.exists(env_file) is false.
NoFile == [exists |-> FALSE, text |-> <<>>]

\* None as returned by load_tokens and load_credentials: as false as {}.
NoDict == <<>>

\* get_all_activities_since and ensure_authentication before their first
\* statement, given the since date, the env file and the clock.
IoStart(after, file, writable, now) ==
    /\ after_timestamp = after
    /\ page = 1
    /\ page_requests = <<>>
    /\ page_responses = <<>>
    /\ collected = <<>>
    /\ fetch_result = Pending
    /\ env_file = file
    /\ env_writable = writable
    /\ current_time = now
    /\ auth_tokens = NoDict
    /\ auth_calls = <<>>
    /\ auth_result = Pending

IoIdle == IoStart(0, NoFile, TRUE, 0)

MainIdle ==
    /\ all_activities = <<>>
    /\ running_activities = <<>>
    /\ grouped_activities = <<>>
    /\ gear_responses = <<>>
    /\ fetched = <<>>
    /\ gear_names = Pending
    /\ results = Pending
    /\ displayed = Pending

InitStats ==
    /\ pc = "pace"
    /\ activities \in ListsUpTo(NumericActivities, MaxLen)
    /\ pace = Pending
    /\ gap = Pending
    /\ stats = Pending
    /\ ClassifierIdle
    /\ FormatIdle
    /\ MainIdle
    /\ IoIdle

CallAveragePace ==
    /\ pc = "pace"
    /\ pace' = calculate_average_pace(activities)
    /\ pc' = "gap"
    /\ UNCHANGED <<activities, gap, stats, classifierVars, formatVars, mainVars, pagingVars, authVars>>

CallEstimatedGap ==
    /\ pc = "gap"
    /\ gap' = calculate_estimated_gap(activities)
    /\ pc' = "stats"
    /\ UNCHANGED <<activities, pace, stats, classifierVars, formatVars, mainVars, pagingVars, authVars>>

CallShoeStatistics ==
    /\ pc = "stats"
    /\ stats' = calculate_shoe_statistics(activities)
    /\ pc' = "analysed"
    /\ UNCHANGED <<activities, pace, gap, classifierVars, formatVars, mainVars, pagingVars, authVars>>

NextStats == CallAveragePace \/ CallEstimatedGap \/ CallShoeStatistics

SpecStats == InitStats /\ [][NextStats]_vars

(***************************************************************************)
(* Properties of the estimator (checked under SpecStats).                  *)
(***************************************************************************)
Distance(a) == Get(a, "distance", 0)
MovingTime(a) == Get(a, "moving_time", 0)
Gain(a) == Get(a, "total_elevation_gain", 0)
Valid(a) == Distance(a) > 0 /\ MovingTime(a) > 0
Without(l, i) == SubSeq(l, 1, i - 1) \o SubSeq(l, i + 1, Len(l))
Indices(l) == 1..Len(l)
NonNegative(f) == f.m >= 0

\* The subsequence of l of the activities that are not races, built from
\* the left.
RECURSIVE NonRaceSubsequence(_)
NonRaceSubsequence(l) ==
    IF l = <<>> THEN <<>>
    ELSE IF is_race(Head(l)) THEN NonRaceSubsequence(Tail(l))
    ELSE <<Head(l)>> \o NonRaceSubsequence(Tail(l))

\* C1: calculate_average_pace, calculate_estimated_gap and
\* calculate_shoe_statistics return a value and never raise, whatever the
\* sign or absence of distance, moving_time and total_elevation_gain.
C1_NeverRaises ==
    /\ pace.status # "raised"
    /\ gap.status # "raised"
    /\ stats.status # "raised"

\* C2: the four pace/GAP fields of calculate_shoe_statistics are
\* non-negative, and 0 when no activity of the full set (respectively of the
\* non-race subset) has distance > 0 and moving_time > 0.
C2_PaceFieldsNonNegative ==
    stats.status = "returned" =>
        LET r == stats.val
            nr == NonRaceSubsequence(activities)
        IN  /\ NonNegative(r.average_pace_min_per_km)
            /\ NonNegative(r.estimated_gap_min_per_km)
            /\ NonNegative(r.average_pace_non_race_min_per_km)
            /\ NonNegative(r.estimated_gap_non_race_min_per_km)
            /\ (\A i \in Indices(activities) : ~Valid(activities[i])) =>
                   /\ r.average_pace_min_per_km = Zero
                   /\ r.estimated_gap_min_per_km = Zero
            /\ (\A i \in Indices(nr) : ~Valid(nr[i])) =>
                   /\ r.average_pace_non_race_min_per_km = Zero
                   /\ r.estimated_gap_non_race_min_per_km = Zero

\* C4: removing an activity with distance <= 0 or moving_time <= 0 (or
\* either absent) changes neither calculate_average_pace nor
\* calculate_estimated_gap, and it adds nothing to the accumulated totals.
C4_InvalidActivityContributesNothing ==
    \A i \in Indices(activities) :
        ~Valid(activities[i]) =>
            LET rest == Without(activities, i)
            IN  /\ pace.status # "pending" =>
                    /\ pace = calculate_average_pace(rest)
                    /\ PaceTotals(activities, 0, 0) = PaceTotals(rest, 0, 0)
                /\ gap.status # "pending" =>
                    /\ gap = calculate_estimated_gap(rest)
                    /\ GapTotals(activities, 0, Zero) = GapTotals(rest, 0, Zero)

C4_Witness ==
    /\ pc = "analysed"
    /\ Len(activities) = 2
    /\ ~Valid(activities[1])
    /\ Valid(activities[2])
    /\ pace.status = "returned" /\ pace.val # Zero
    /\ gap.status = "returned" /\ gap.val # Zero

\* C5: the non-race fields of calculate_shoe_statistics come from exactly
\* the subsequence of activities for which is_race is false; when every
\* activity is a race they are 0 and the all-runs averages are unaffected.
C5_NonRaceFieldsFromNonRaceSubsequence ==
    stats.status = "returned" =>
        LET r == stats.val
            nr == NonRaceSubsequence(activities)
        IN  /\ r.non_race_count = Len(nr)
            /\ 0 <= r.non_race_count
            /\ r.non_race_count <= r.activity_count
            /\ r.activity_count = Len(activities)
            /\ r.average_pace_non_race_min_per_km = calculate_average_pace(nr).val
            /\ calculate_estimated_gap(nr).status = "returned"
            /\ r.estimated_gap_non_race_min_per_km = calculate_estimated_gap(nr).val
            /\ r.average_pace_min_per_km = pace.val
            /\ r.estimated_gap_min_per_km = gap.val
            /\ (\A i \in Indices(activities) : is_race(activities[i])) =>
                   /\ r.non_race_count = 0
                   /\ r.average_pace_non_race_min_per_km = Zero
                   /\ r.estimated_gap_non_race_min_per_km = Zero

C5_Witness ==
    /\ stats.status = "returned"
    /\ Len(activities) = 2
    /\ is_race(activities[1]) /\ ~is_race(activities[2])
    /\ Valid(activities[1]) /\ Valid(activities[2])
    /\ stats.val.non_race_count = 1
    /\ stats.val.average_pace_non_race_min_per_km # stats.val.average_pace_min_per_km

AllValidGainsNonNegative ==
    \A i \in Indices(activities) : Valid(activities[i]) => Gain(activities[i]) >= 0
AllValidGainsZero ==
    \A i \in Indices(activities) : Valid(activities[i]) => Gain(activities[i]) = 0

\* C6 as stated: when every valid activity has total_elevation_gain >= 0,
\* estimated GAP <= average pace, with equality exactly when every valid
\* activity has zero gain (strictly less as soon as one has positive gain).
C6_GapBelowPaceStrictly ==
    (pace.status = "returned" /\ gap.status = "returned" /\ AllValidGainsNonNegative) =>
        /\ FLeq(gap.val, pace.val)
        /\ (gap.val = pace.val) <=> AllValidGainsZero

\* C6 as amended: when every valid activity has total_elevation_gain >= 0,
\* estimated GAP <= average pace, and they are equal when every valid
\* activity has zero gain; a positive gain lowers GAP only if it survives
\* the rounding of the elevation factor and of the sums.
C6_GapAtMostPace ==
    (pace.status = "returned" /\ gap.status = "returned" /\ AllValidGainsNonNegative) =>
        /\ FLeq(gap.val, pace.val)
        /\ AllValidGainsZero => gap.val = pace.val

C6_Witness ==
    /\ pace.status = "returned" /\ gap.status = "returned"
    /\ AllValidGainsNonNegative
    /\ ~AllValidGainsZero
    /\ FLess(gap.val, pace.val)
    /\ Len(activities) = 2 /\ Valid(activities[1]) /\ Valid(activities[2])

(***************************************************************************)
(* The classifier applied to bounded inputs: names are up to MaxWords      *)
(* fragments written one after the other.                                  *)
(***************************************************************************)
NameFragments ==
    { <<"H", "a", "l", "f", " ">>,
      <<"M", "a", "r", "a", "t", "h", "o", "n">>,
      <<"5", "k", " ">>,
      <<"1", "0", "K", " ">>,
      <<"R", "a", "c", "e">>,
      <<"p", "a", "r", "k">>,
      <<"r", "u", "n">>,
      <<"E", "v", "e", "n", "i", "n", "g", " ", "J", "o", "g">>,
      <<"s", "p", "a">>,
      <<"c", "e">> }

RECURSIVE NamesOfWords(_)
NamesOfWords(n) ==
    IF n = 0 THEN {<<>>}
    ELSE {name \o w : name \in NamesOfWords(n - 1), w \in NameFragments}

Names == UNION {NamesOfWords(n) : n \in 0..MaxWords}

RaceInputs ==
    {n @@ w : n \in Field("name", Names), w \in Field("workout_type", {0, 1, 3})}

InitRace ==
    /\ pc = "classify"
    /\ race_input \in RaceInputs
    /\ race = Pending
    /\ EstimatorIdle
    /\ FormatIdle
    /\ MainIdle
    /\ IoIdle

CallIsRace ==
    /\ pc = "classify"
    /\ race' = Returned(is_race(race_input))
    /\ pc' = "classified"
    /\ UNCHANGED <<race_input, estimatorVars, formatVars, mainVars, pagingVars, authVars>>

NextRace == CallIsRace

SpecRace == InitRace /\ [][NextRace]_vars

\* s contains kw as a contiguous run of characters.
Contains(s, kw) ==
    \E i \in 1..(Len(s) - Len(kw) + 1) : SubSeq(s, i, i + Len(kw) - 1) = kw

WorkoutTypeIsRace(a) == "workout_type" \in DOMAIN a /\ a["workout_type"] = 1
LoweredNameOrEmpty(a) == IF "name" \in DOMAIN a THEN lower(a["name"]) ELSE <<>>

\* C7: is_race is true iff workout_type = 1 or the lower-cased name contains
\* one of the six keywords; a missing name counts as empty; and the answer
\* is the same with the keywords reduced to race, parkrun and marathon.
C7_IsRaceIffMarkerOrKeyword ==
    race.status = "returned" =>
        /\ race.val <=>
               \/ WorkoutTypeIsRace(race_input)
               \/ \E kw \in {Kw_race, Kw_parkrun, Kw_marathon, Kw_half_marathon,
                               Kw_10k_race, Kw_5k_race} :
                      Contains(LoweredNameOrEmpty(race_input), kw)
        /\ race.val <=>
               \/ WorkoutTypeIsRace(race_input)
               \/ \E kw \in {Kw_race, Kw_parkrun, Kw_marathon} :
                      Contains(LoweredNameOrEmpty(race_input), kw)
        /\ "name" \notin DOMAIN race_input => (race.val <=> WorkoutTypeIsRace(race_input))

C7_Witness ==
    /\ race = Returned(TRUE)
    /\ ~WorkoutTypeIsRace(race_input)
    /\ "name" \in DOMAIN race_input
    /\ Contains(lower(race_input["name"]), Kw_half_marathon)
    /\ ~Contains(race_input["name"], Kw_marathon)

(***************************************************************************)
(* format_pace                                                             *)
(***************************************************************************)
\* int(x): the float truncated toward zero.
Trunc(f) ==
    IF f.e >= 0 THEN f.m * Pow2(f.e)
    ELSE IF f.m >= 0 THEN f.m \div Pow2(-f.e)
    ELSE -((-f.m) \div Pow2(-f.e))

\* The integer nearest to the float, halves upward.
RoundHalfUp(f) == Trunc(FAdd(f, [m |-> 1, e |-> -1]))

DigitChars == <<"0", "1", "2", "3", "4", "5", "6", "7", "8", "9">>

RECURSIVE Digits(_)
Digits(n) ==
    IF n < 10 THEN <<DigitChars[n + 1]>>
    ELSE Digits(n \div 10) \o <<DigitChars[(n % 10) + 1]>>

\* format(n, "d")
Decimal(n) == IF n < 0 THEN <<"-">> \o Digits(-n) ELSE Digits(n)

\* format(n, "02d")
ZeroPadded2(n) ==
    IF n >= 0 /\ n < 10 THEN <<"0">> \o Digits(n) ELSE Decimal(n)

\* Line 156: int((pace_minutes - minutes) * 60).
SecondsRounded(p, minutes) ==
    RoundHalfUp(FMul(FSub(p, FromInt(minutes)), FromInt(60)))
seconds_of(p, minutes) ==
    Trunc(FMul(FSub(p, FromInt(minutes)), FromInt(60)))

\* Line 158.
MinutesColonSeconds(minutes, seconds) ==
    Decimal(minutes) \o <<":">> \o ZeroPadded2(seconds)

MinutesAndSeconds(p, minutes) == MinutesColonSeconds(minutes, seconds_of(p, minutes))

format_pace(p) ==
    IF p = Zero THEN <<"0", ":", "0", "0">>
    ELSE MinutesAndSeconds(p, Trunc(p))

(***************************************************************************)
(* format_pace applied to every non-negative float below 2^MaxPaceBits     *)
(* minutes whose unit in the last place is at least 2^-(MantBits + 2).     *)
(***************************************************************************)
MaxPaceBits == 4

PaceInputs ==
    {Canon(m, -e) : m \in 0..(Pow2(MantBits) - 1),
                    e \in (MantBits - MaxPaceBits)..(MantBits + 2)}

InitFormat ==
    /\ pc = "format"
    /\ pace_minutes \in PaceInputs
    /\ formatted = Pending
    /\ EstimatorIdle
    /\ ClassifierIdle
    /\ MainIdle
    /\ IoIdle

CallFormatPace ==
    /\ pc = "format"
    /\ formatted' = Returned(format_pace(pace_minutes))
    /\ pc' = "formatted"
    /\ UNCHANGED <<pace_minutes, estimatorVars, classifierVars, mainVars, pagingVars, authVars>>

NextFormat == CallFormatPace

SpecFormat == InitFormat /\ [][NextFormat]_vars

\* The exact integer part of p, and of (p - whole) * 60, for p >= 0.
ExactMinutes(p) ==
    IF p.e >= 0 THEN p.m * Pow2(p.e) ELSE p.m \div Pow2(-p.e)
ExactSeconds(p) ==
    IF p.e >= 0 THEN 0 ELSE ((p.m % Pow2(-p.e)) * 60) \div Pow2(-p.e)
\* (p - whole) * 60 is within half a unit in the last place below a whole
\* number of seconds, so that the float product is that whole number.
ProductRoundsToWhole(p) ==
    /\ p.e < 0
    /\ ((p.m % Pow2(-p.e)) * 60) % Pow2(-p.e) # 0
    /\ FMul(FSub(p, FromInt(ExactMinutes(p))), FromInt(60)) = FromInt(ExactSeconds(p) + 1)

\* C8 as stated: format_pace(p) is "0:00" for p = 0 and otherwise "M:SS"
\* with M the integer part of p and SS the integer part of (p - M) * 60 in
\* two digits, 00..59: truncated, never rounded up or carried into M.
C8_TruncatedMinutesSeconds ==
    formatted.status = "returned" =>
        /\ pace_minutes = Zero => formatted.val = <<"0", ":", "0", "0">>
        /\ ExactSeconds(pace_minutes) \in 0..59
        /\ formatted.val =
               Digits(ExactMinutes(pace_minutes)) \o <<":">> \o
               <<DigitChars[(ExactSeconds(pace_minutes) \div 10) + 1],
                 DigitChars[(ExactSeconds(pace_minutes) % 10) + 1]>>

\* C8 as amended: format_pace(p) is "0:00" for p = 0 and otherwise "M:SS"
\* with M the integer part of p and SS, two digits in 00..59, the integer
\* part of the float product (p - M) * 60: the exact integer part, or one
\* more when the product rounds up to that whole second; never carried
\* into M.
C8_FloatProductMinutesSeconds ==
    formatted.status = "returned" =>
        \E ss \in 0..59 :
            /\ formatted.val =
                   Digits(ExactMinutes(pace_minutes)) \o <<":">> \o
                   <<DigitChars[(ss \div 10) + 1], DigitChars[(ss % 10) + 1]>>
            /\ pace_minutes = Zero => ss = 0
            /\ IF ProductRoundsToWhole(pace_minutes)
               THEN ss = ExactSeconds(pace_minutes) + 1
               ELSE ss = ExactSeconds(pace_minutes)

C8_Witness ==
    /\ formatted.status = "returned"
    /\ ProductRoundsToWhole(pace_minutes)
    /\ ExactMinutes(pace_minutes) >= 1
    /\ formatted.val = Digits(ExactMinutes(pace_minutes)) \o <<":">> \o
                       ZeroPadded2(ExactSeconds(pace_minutes) + 1)

(***************************************************************************)
(* filter_running_activities, group_by_gear                                *)
(***************************************************************************)
\* A JSON value that is null or a string.
None == [is_none |-> TRUE, str |-> ""]
Str(s) == [is_none |-> FALSE, str |-> s]
\* Python truth of such a value: None and "" are false.
Truthy(v) == ~v.is_none /\ v.str # ""

running_types == {"Run", "TrailRun", "VirtualRun"}

\* activity.get(key) in running_types
InRunningTypes(activity, key) ==
    key \in DOMAIN activity /\ activity[key] \in running_types

IsRunning(activity) ==
    InRunningTypes(activity, "type") \/ InRunningTypes(activity, "sport_type")

filter_running_activities(acts) == SelectSeq(acts, IsRunning)

\* Lines 41-45: the key an activity is appended under.
KeyWhenPresent(activity) ==
    IF "gear_id" \in DOMAIN activity THEN activity["gear_id"].str ELSE "no_gear"
GroupKey(activity) ==
    IF Truthy(Get(activity, "gear_id", None))
    THEN Get(activity, "gear_id", None).str
    ELSE "no_gear"

\* grouped[key].append(activity) on a dict kept in insertion order, as a
\* sequence of [key, items].
RECURSIVE AppendToGroup(_, _, _)
AppendToGroup(grouped, key, activity) ==
    IF grouped = <<>> THEN <<[key |-> key, items |-> <<activity>>]>>
    ELSE IF Head(grouped).key = key
    THEN <<[key |-> key, items |-> Append(Head(grouped).items, activity)]>>
         \o Tail(grouped)
    ELSE <<Head(grouped)>> \o AppendToGroup(Tail(grouped), key, activity)

RECURSIVE GroupInto(_, _)
GroupInto(grouped, acts) ==
    IF acts = <<>> THEN grouped
    ELSE GroupInto(AppendToGroup(grouped, GroupKey(Head(acts)), Head(acts)),
                   Tail(acts))

group_by_gear(acts) == GroupInto(<<>>, acts)

\* list(grouped_activities.keys())
RECURSIVE Keys(_)
Keys(grouped) ==
    IF grouped = <<>> THEN <<>> ELSE <<Head(grouped).key>> \o Keys(Tail(grouped))

(***************************************************************************)
(* get_gear_names                                                          *)
(***************************************************************************)
\* f"Unknown Shoe ({gear_id})"
FallbackName(gear_id) == "Unknown Shoe (" \o gear_id \o ")"

\* Lines 183-185: the except branch.
SkipFailedGear(gear_names_so_far, gear_id) == gear_names_so_far
OnFetchFailure(gear_names_so_far, gear_id) ==
    (gear_id :> FallbackName(gear_id)) @@ gear_names_so_far

\* One turn of the loop of lines 174-185; response is the outcome of
\* client.get_gear(gear_id), which is not called for "no_gear".
GearNameStep(gear_names_so_far, gear_id, responses) ==
    IF gear_id = "no_gear"
    THEN (gear_id :> "No Shoe Recorded") @@ gear_names_so_far
    ELSE IF responses[gear_id].ok
    THEN (gear_id :> Get(responses[gear_id].gear, "name", FallbackName(gear_id)))
         @@ gear_names_so_far
    ELSE OnFetchFailure(gear_names_so_far, gear_id)

RECURSIVE GearNamesInto(_, _, _)
GearNamesInto(gear_names_so_far, gear_ids, responses) ==
    IF gear_ids = <<>> THEN gear_names_so_far
    ELSE GearNamesInto(GearNameStep(gear_names_so_far, Head(gear_ids), responses),
                       Tail(gear_ids), responses)

get_gear_names(responses, gear_ids) == GearNamesInto(<<>>, gear_ids, responses)

IsFetched(gear_id) == gear_id # "no_gear"
\* The calls of client.get_gear made by get_gear_names, in order.
GearFetches(gear_ids) == SelectSeq(gear_ids, IsFetched)

(***************************************************************************)
(* main, display_results                                                   *)
(***************************************************************************)
\* Lines 199-205 of main: the statistics dict with its added entries.
ShoeResult(gear_id, s, names) ==
    [gear_id |-> gear_id,
     gear_name |-> Get(names, gear_id, "Unknown (" \o gear_id \o ")"),
     formatted_pace |-> format_pace(s.average_pace_min_per_km),
     formatted_gap |-> format_pace(s.estimated_gap_min_per_km),
     formatted_pace_non_race |-> format_pace(s.average_pace_non_race_min_per_km),
     formatted_gap_non_race |-> format_pace(s.estimated_gap_non_race_min_per_km)]
    @@ s

\* Lines 196-206 of main; an exception of calculate_shoe_statistics is not
\* caught.
RECURSIVE ResultsInto(_, _, _)
RECURSIVE ResultsStep(_, _, _, _, _)
ResultsStep(results_so_far, key, s, rest, names) ==
    IF s.status = "raised" THEN s
    ELSE ResultsInto(Append(results_so_far, ShoeResult(key, s.val, names)),
                     rest, names)
ResultsInto(results_so_far, grouped, names) ==
    IF grouped = <<>> THEN Returned(results_so_far)
    ELSE ResultsStep(results_so_far, Head(grouped).key,
                     calculate_shoe_statistics(Head(grouped).items),
                     Tail(grouped), names)

\* Line 123: whether shoe is put before other, which was listed before it.
RanksBeforeAscending(shoe, other) ==
    FLess(shoe.total_distance_km, other.total_distance_km)
RanksBefore(shoe, other) ==
    FLess(other.total_distance_km, shoe.total_distance_km)

\* results.sort(key=total_distance_km, reverse=True): a stable sort.
RECURSIVE InsertShoe(_, _)
InsertShoe(sorted, shoe) ==
    IF sorted = <<>> THEN <<shoe>>
    ELSE IF RanksBefore(shoe, Head(sorted)) THEN <<shoe>> \o sorted
    ELSE <<Head(sorted)>> \o InsertShoe(Tail(sorted), shoe)

RECURSIVE SortInto(_, _)
SortInto(sorted, shoes) ==
    IF shoes = <<>> THEN sorted
    ELSE SortInto(InsertShoe(sorted, Head(shoes)), Tail(shoes))

SortedByDistance(shoes) == SortInto(<<>>, shoes)

(***************************************************************************)
(* The top-level flow of main from the fetched activities on, with the     *)
(* gear API answering each get_gear with a named record, a record without  *)
(* a name, or a failure.                                                   *)
(***************************************************************************)
FetchedActivities ==
    {[type |-> "Run", gear_id |-> Str("g1"), distance |-> 20000,
      moving_time |-> 300, total_elevation_gain |-> 1],
     [type |-> "Run", gear_id |-> Str("g1"), distance |-> 33,
      moving_time |-> 300, name |-> Kw_parkrun],
     [type |-> "Hike", sport_type |-> "TrailRun", gear_id |-> Str("g2"),
      distance |-> 20000, moving_time |-> 300, total_elevation_gain |-> -1000],
     [type |-> "Run", distance |-> 33, moving_time |-> 300],
     [type |-> "Run", gear_id |-> None, distance |-> 20000,
      moving_time |-> 300, workout_type |-> 1],
     [sport_type |-> "VirtualRun", gear_id |-> Str(""), distance |-> 33,
      moving_time |-> 300, total_elevation_gain |-> 1],
     [type |-> "Run", gear_id |-> Str("no_gear"), distance |-> 20000,
      moving_time |-> 300],
     [type |-> "Ride", sport_type |-> "Ride", gear_id |-> Str("g1"),
      distance |-> 20000, moving_time |-> 300],
     [type |-> "Run", gear_id |-> Str("g2"), distance |-> 33,
      moving_time |-> 300, total_elevation_gain |-> -10]}

GearResponses ==
    {[ok |-> TRUE, gear |-> [name |-> "Pegasus"]],
     [ok |-> TRUE, gear |-> <<>>],
     [ok |-> FALSE, gear |-> <<>>]}

Range(seq) == {seq[i] : i \in DOMAIN seq}

Init ==
    /\ pc = "main"
    /\ all_activities \in ListsUpTo(FetchedActivities, MaxActivities)
    /\ running_activities = <<>>
    /\ grouped_activities = <<>>
    /\ gear_responses = <<>>
    /\ fetched = <<>>
    /\ gear_names = Pending
    /\ results = Pending
    /\ displayed = Pending
    /\ EstimatorIdle
    /\ ClassifierIdle
    /\ FormatIdle
    /\ IoIdle

\* Lines 179-184 of main.
FilterRunning ==
    /\ pc = "main"
    /\ running_activities' = filter_running_activities(all_activities)
    /\ pc' = IF running_activities' = <<>> THEN "exited" ELSE "group"
    /\ UNCHANGED <<all_activities, grouped_activities, gear_responses, fetched,
                   gear_names, results, displayed,
                   estimatorVars, classifierVars, formatVars,
                   pagingVars, authVars>>

\* Line 188 of main.
GroupByGear ==
    /\ pc = "group"
    /\ grouped_activities' = group_by_gear(running_activities)
    /\ pc' = "names"
    /\ UNCHANGED <<all_activities, running_activities, gear_responses, fetched,
                   gear_names, results, displayed,
                   estimatorVars, classifierVars, formatVars,
                   pagingVars, authVars>>

\* Line 192 of main.
GetGearNames ==
    /\ pc = "names"
    /\ \E responses \in [Range(GearFetches(Keys(grouped_activities))) -> GearResponses] :
          /\ gear_responses' = responses
          /\ gear_names' = Returned(get_gear_names(responses, Keys(grouped_activities)))
    /\ fetched' = GearFetches(Keys(grouped_activities))
    /\ pc' = "statistics"
    /\ UNCHANGED <<all_activities, running_activities, grouped_activities,
                   results, displayed,
                   estimatorVars, classifierVars, formatVars,
                   pagingVars, authVars>>

\* Lines 196-206 of main.
CalculateStatistics ==
    /\ pc = "statistics"
    /\ results' = ResultsInto(<<>>, grouped_activities, gear_names.val)
    /\ pc' = IF results'.status = "raised" THEN "crashed" ELSE "display"
    /\ UNCHANGED <<all_activities, running_activities, grouped_activities,
                   gear_responses, fetched, gear_names, displayed,
                   estimatorVars, classifierVars, formatVars,
                   pagingVars, authVars>>

\* Line 209 of main: display_results sorts the list in place and prints it.
DisplayResults ==
    /\ pc = "display"
    /\ results' = Returned(SortedByDistance(results.val))
    /\ displayed' = results'
    /\ pc' = "done"
    /\ UNCHANGED <<all_activities, running_activities, grouped_activities,
                   gear_responses, fetched, gear_names,
                   estimatorVars, classifierVars, formatVars,
                   pagingVars, authVars>>

Next ==
    \/ FilterRunning
    \/ GroupByGear
    \/ GetGearNames
    \/ CalculateStatistics
    \/ DisplayResults

Spec == Init /\ [][Next]_vars

\* The key the group of an activity is to have: its gear_id when that is
\* present and non-empty, "no_gear" otherwise.
DerivedKey(activity) ==
    IF /\ "gear_id" \in DOMAIN activity
       /\ ~activity["gear_id"].is_none
       /\ activity["gear_id"].str # ""
    THEN activity["gear_id"].str
    ELSE "no_gear"

\* The activities of a list that derive the given key, in list order.
RECURSIVE WithKey(_, _)
WithKey(acts, key) ==
    IF acts = <<>> THEN <<>>
    ELSE IF DerivedKey(Head(acts)) = key
    THEN <<Head(acts)>> \o WithKey(Tail(acts), key)
    ELSE WithKey(Tail(acts), key)

RECURSIVE TotalItems(_)
TotalItems(grouped) ==
    IF grouped = <<>> THEN 0 ELSE Len(Head(grouped).items) + TotalItems(Tail(grouped))

Grouped == pc \in {"names", "statistics", "crashed", "display", "done"}

\* C3: group_by_gear partitions its input: every input activity is in
\* exactly one group, once, under its gear_id when present and non-empty
\* and under "no_gear" otherwise; no group is empty, the keys are exactly
\* the keys so derived, and each group keeps the input's relative order.
C3_GroupsPartitionInput ==
    Grouped =>
        /\ \A i \in DOMAIN grouped_activities :
              /\ grouped_activities[i].items # <<>>
              /\ grouped_activities[i].items =
                     WithKey(running_activities, grouped_activities[i].key)
        /\ \A i, j \in DOMAIN grouped_activities :
              grouped_activities[i].key = grouped_activities[j].key => i = j
        /\ Range(Keys(grouped_activities)) =
               {DerivedKey(running_activities[n]) : n \in DOMAIN running_activities}
        /\ TotalItems(grouped_activities) = Len(running_activities)

\* Gear ids [A, none, A]: two groups, A with two items around the one
\* without a gear id; and an empty gear_id grouped under "no_gear".
C3_Witness ==
    /\ Grouped
    /\ Len(running_activities) = 3
    /\ Len(grouped_activities) = 2
    /\ grouped_activities[1].key = "g1"
    /\ Len(grouped_activities[1].items) = 2
    /\ grouped_activities[2].key = "no_gear"
    /\ "gear_id" \in DOMAIN running_activities[2]
    /\ running_activities[2]["gear_id"] = Str("")

Displayed == pc = "done"

\* The entries of the printed list that belong to the given gear id.
EntriesOf(gear_id) ==
    {n \in DOMAIN displayed.val : displayed.val[n].gear_id = gear_id}

\* The printed entry carries the statistics of the group.
CarriesStatistics(shoe, s) ==
    /\ s.status = "returned"
    /\ \A k \in DOMAIN s.val : shoe[k] = s.val[k]

\* C9: the shoes rendered by display_results are a permutation of the
\* per-group statistics, one entry per group of group_by_gear on the running
\* activities, in non-increasing order of total_distance_km.
C9_OneEntryPerGroupByDistance ==
    Displayed =>
        /\ Len(displayed.val) = Len(grouped_activities)
        /\ \A i \in DOMAIN grouped_activities :
              /\ Cardinality(EntriesOf(grouped_activities[i].key)) = 1
              /\ \A n \in EntriesOf(grouped_activities[i].key) :
                    CarriesStatistics(displayed.val[n],
                        calculate_shoe_statistics(
                            WithKey(running_activities, grouped_activities[i].key)))
        /\ running_activities = SelectSeq(all_activities, IsRunning)
        /\ \A i, j \in DOMAIN displayed.val :
              i < j => FLeq(displayed.val[j].total_distance_km,
                            displayed.val[i].total_distance_km)

\* Three groups printed in an order that is not the order of grouping.
C9_Witness ==
    /\ Displayed
    /\ Len(grouped_activities) = 3
    /\ displayed.val[1].gear_id = grouped_activities[3].key
    /\ FLess(displayed.val[3].total_distance_km, displayed.val[1].total_distance_km)

NamesReturned == pc \in {"statistics", "crashed", "display", "done"}

\* C10: get_gear_names returns an entry for every gear id given, whatever
\* the fetches do: "no_gear" is "No Shoe Recorded" without a fetch, an id
\* whose fetch fails or whose record has no name is "Unknown Shoe (<id>)",
\* and a failed fetch neither raises nor keeps the other ids from being
\* resolved.
C10_EveryGearIdNamed ==
    NamesReturned =>
        /\ gear_names.status = "returned"
        /\ DOMAIN gear_names.val = Range(Keys(grouped_activities))
        /\ "no_gear" \in DOMAIN gear_names.val =>
               /\ gear_names.val["no_gear"] = "No Shoe Recorded"
               /\ "no_gear" \notin Range(fetched)
        /\ \A id \in DOMAIN gear_names.val \ {"no_gear"} :
               /\ id \in Range(fetched)
               /\ IF gear_responses[id].ok /\ "name" \in DOMAIN gear_responses[id].gear
                  THEN gear_names.val[id] = gear_responses[id].gear["name"]
                  ELSE gear_names.val[id] = "Unknown Shoe (" \o id \o ")"

\* The first fetch fails, "no_gear" follows, and a later id is resolved to
\* the name of its record.
C10_Witness ==
    /\ NamesReturned
    /\ Keys(grouped_activities) = <<"g1", "no_gear", "g2">>
    /\ ~gear_responses["g1"].ok
    /\ gear_responses["g2"].ok
    /\ gear_names.val["g2"] = "Pegasus"
    /\ gear_names.val["g1"] = "Unknown Shoe (g1)"

(***************************************************************************)
(* StravaClient.get_all_activities_since                                   *)
(***************************************************************************)
per_page == 200

\* Line 114: fewer activities than requested.
FullPageEndsToo(page_activities) == Len(page_activities) <= per_page
ReachedEnd(page_activities) == Len(page_activities) < per_page

(***************************************************************************)
(* The pagination loop against an API that answers each request with a     *)
(* failure or with a list of any length; one action per turn of the loop.  *)
(***************************************************************************)
\* The answers of get_activities: raise_for_status raises, or the JSON list
\* of the n activities <<page, 1>> .. <<page, n>>.
ApiPages(page_number) ==
    {[ok |-> TRUE, items |-> [i \in 1..n |-> <<page_number, i>>]] :
        n \in {0, 1, per_page - 1, per_page, per_page + 1}}
    \cup {[ok |-> FALSE, items |-> <<>>]}

InitPages ==
    /\ pc = "fetching"
    /\ \E after \in {0, 86400, 1700000000} : IoStart(after, NoFile, TRUE, 0)
    /\ EstimatorIdle
    /\ ClassifierIdle
    /\ FormatIdle
    /\ MainIdle

\* Lines 102-106 and 78: raise_for_status raises and nothing catches it.
GetActivitiesFails ==
    /\ pc = "fetching"
    /\ page <= MaxPages
    /\ \E response \in ApiPages(page) :
          /\ ~response.ok
          /\ page_responses' = Append(page_responses, response)
    /\ page_requests' = Append(page_requests,
           [after |-> after_timestamp, page |-> page, per_page |-> per_page])
    /\ fetch_result' = Raised("RequestException")
    /\ pc' = "fetch_failed"
    /\ UNCHANGED <<after_timestamp, page, collected,
                   estimatorVars, classifierVars, formatVars, mainVars, authVars>>

\* Lines 108-115 and 122: an empty page ends the loop; a page with fewer
\* than per_page items is added and ends the loop.
GetLastPage ==
    /\ pc = "fetching"
    /\ page <= MaxPages
    /\ \E response \in ApiPages(page) :
          /\ response.ok
          /\ response.items = <<>> \/ ReachedEnd(response.items)
          /\ page_responses' = Append(page_responses, response)
          /\ collected' = IF response.items = <<>> THEN collected
                          ELSE collected \o response.items
    /\ page_requests' = Append(page_requests,
           [after |-> after_timestamp, page |-> page, per_page |-> per_page])
    /\ fetch_result' = Returned(collected')
    /\ pc' = "fetched"
    /\ UNCHANGED <<after_timestamp, page,
                   estimatorVars, classifierVars, formatVars, mainVars, authVars>>

\* Lines 111-120: any other page is added and the next one is requested.
GetFullPage ==
    /\ pc = "fetching"
    /\ page <= MaxPages
    /\ \E response \in ApiPages(page) :
          /\ response.ok
          /\ response.items # <<>>
          /\ ~ReachedEnd(response.items)
          /\ page_responses' = Append(page_responses, response)
          /\ collected' = collected \o response.items
    /\ page_requests' = Append(page_requests,
           [after |-> after_timestamp, page |-> page, per_page |-> per_page])
    /\ page' = page + 1
    /\ UNCHANGED <<pc, after_timestamp, fetch_result,
                   estimatorVars, classifierVars, formatVars, mainVars, authVars>>

NextPages ==
    \/ GetActivitiesFails
    \/ GetLastPage
    \/ GetFullPage

SpecPages == InitPages /\ [][NextPages]_vars

\* The items of the answered pages, in the order of the answers.
RECURSIVE Concatenation(_)
Concatenation(responses) ==
    IF responses = <<>> THEN <<>>
    ELSE Head(responses).items \o Concatenation(Tail(responses))

\* The answer ends the pagination: a failure, or fewer than 200 items.
EndsPagination(response) == ~response.ok \/ Len(response.items) < 200

Paging == pc \in {"fetching", "fetched", "fetch_failed"}

\* C11: get_all_activities_since requests pages 1, 2, 3, ... in order,
\* none skipped or repeated, stops right after the first page that is
\* empty or has fewer than 200 items and returns the concatenation of the
\* fetched pages in fetch order; it has terminated exactly when the server
\* has returned such a page or a request has failed, and a failure
\* propagates with no partial list returned.
C11_PagesInOrderUntilShortPage ==
    Paging =>
        /\ Len(page_requests) = Len(page_responses)
        /\ \A i \in DOMAIN page_requests :
              /\ page_requests[i].page = i
              /\ page_requests[i].per_page = 200
              /\ page_requests[i].after = after_timestamp
        /\ \A i \in DOMAIN page_responses :
              i < Len(page_responses) => ~EndsPagination(page_responses[i])
        /\ (pc # "fetching") <=>
               \E i \in DOMAIN page_responses : EndsPagination(page_responses[i])
        /\ pc = "fetching" =>
               /\ fetch_result.status = "pending"
               /\ page = Len(page_responses) + 1
        /\ pc = "fetched" =>
               /\ page_responses[Len(page_responses)].ok
               /\ fetch_result.status = "returned"
               /\ fetch_result.val = Concatenation(page_responses)
        /\ pc = "fetch_failed" =>
               /\ ~page_responses[Len(page_responses)].ok
               /\ fetch_result.status = "raised"

\* Two full pages and a short third one: three requests, 599 activities.
C11_Witness ==
    /\ pc = "fetched"
    /\ Len(page_requests) = 3
    /\ Len(page_responses[1].items) = 200
    /\ Len(page_responses[3].items) = 199
    /\ Len(fetch_result.val) = 599

(***************************************************************************)
(* The env file of auth.py.  The file is its text, a sequence of           *)
(* characters, or does not exist; a token dict maps access_token and       *)
(* refresh_token to strings and expires_at to an int.                      *)
(***************************************************************************)
\* A string literal as the sequence of its characters.
Chars(s) == [i \in 1..Len(s) |-> SubSeq(s, i, i)]

\* for line in f: the text cut at its line breaks (a "\r\n" gives one more
\* empty line, which line 108 skips).
RECURSIVE SplitLines(_)
SplitLines(text) ==
    IF text = <<>> THEN <<>>
    ELSE IF \A i \in DOMAIN text : text[i] \notin {"\n", "\r"} THEN <<text>>
    ELSE SplitLines(
             SubSeq(text, 1,
                    (CHOOSE i \in DOMAIN text :
                        /\ text[i] \in {"\n", "\r"}
                        /\ \A j \in (i + 1)..Len(text) : text[j] \notin {"\n", "\r"})
                    - 1))
         \o <<SubSeq(text,
                     (CHOOSE i \in DOMAIN text :
                         /\ text[i] \in {"\n", "\r"}
                         /\ \A j \in (i + 1)..Len(text) : text[j] \notin {"\n", "\r"})
                     + 1,
                     Len(text))>>

\* line.strip()
RECURSIVE strip(_)
strip(line) ==
    IF line = <<>> THEN line
    ELSE IF Head(line) \in {" ", "\t", "\n", "\r"} THEN strip(Tail(line))
    ELSE IF line[Len(line)] \in {" ", "\t", "\n", "\r"}
    THEN strip(SubSeq(line, 1, Len(line) - 1))
    ELSE line

\* line and not line.startswith('#') and '=' in line
IsEntry(line) ==
    /\ line # <<>>
    /\ Head(line) # "#"
    /\ \E i \in DOMAIN line : line[i] = "="

\* The place of the first '=' of the line.
FirstEquals(line) ==
    CHOOSE i \in DOMAIN line :
        line[i] = "=" /\ \A j \in 1..(i - 1) : line[j] # "="

\* key, value = line.split('=', 1)
SplitEntry(line) ==
    [key |-> SubSeq(line, 1, FirstEquals(line) - 1),
     value |-> SubSeq(line, FirstEquals(line) + 1, Len(line))]

\* The (key, value) pairs of the lines that pass the test, in file order.
RECURSIVE EntriesOfLines(_)
EntriesOfLines(lines) ==
    IF lines = <<>> THEN <<>>
    ELSE IF IsEntry(strip(Head(lines)))
    THEN <<SplitEntry(strip(Head(lines)))>> \o EntriesOfLines(Tail(lines))
    ELSE EntriesOfLines(Tail(lines))

FileEntries(file) ==
    IF file.exists THEN EntriesOfLines(SplitLines(file.text)) ELSE <<>>

\* env_content[key] = value on a dict kept in insertion order, as a sequence
\* of [key, value].
RECURSIVE Put(_, _, _)
Put(env_content, key, value) ==
    IF env_content = <<>> THEN <<[key |-> key, value |-> value]>>
    ELSE IF Head(env_content).key = key
    THEN <<[key |-> key, value |-> value]>> \o Tail(env_content)
    ELSE <<Head(env_content)>> \o Put(Tail(env_content), key, value)

RECURSIVE PutAll(_, _)
PutAll(env_content, entries) ==
    IF entries = <<>> THEN env_content
    ELSE PutAll(Put(env_content, Head(entries).key, Head(entries).value),
                Tail(entries))

\* Lines 113-115.
UpdateTokens(env_content, tokens) ==
    Put(Put(Put(env_content,
                Chars("STRAVA_ACCESS_TOKEN"), Get(tokens, "access_token", <<>>)),
            Chars("STRAVA_REFRESH_TOKEN"), Get(tokens, "refresh_token", <<>>)),
        Chars("STRAVA_TOKEN_EXPIRES_AT"),
        IF "expires_at" \in DOMAIN tokens THEN Decimal(tokens["expires_at"])
        ELSE <<>>)

\* Lines 118-120: f.write(f"{key}={value}\n") for every entry.
RECURSIVE WriteEntries(_)
WriteEntries(env_content) ==
    IF env_content = <<>> THEN <<>>
    ELSE Head(env_content).key \o <<"=">> \o Head(env_content).value \o <<"\n">>
         \o WriteEntries(Tail(env_content))

\* The env file after save_tokens(tokens).
save_tokens(tokens, file) ==
    [exists |-> TRUE,
     text |-> WriteEntries(UpdateTokens(PutAll(<<>>, FileEntries(file)), tokens))]

\* int(value) accepts the digits of a decimal number with an optional sign.
IsInt(text) ==
    /\ text # <<>>
    /\ Head(text) \in {"-", "+"} => Len(text) > 1
    /\ \A i \in DOMAIN text :
          \/ i = 1 /\ text[i] \in {"-", "+"}
          \/ \E d \in DOMAIN DigitChars : DigitChars[d] = text[i]

RECURSIVE DigitsValue(_, _)
DigitsValue(text, n) ==
    IF text = <<>> THEN n
    ELSE DigitsValue(Tail(text),
             10 * n + (CHOOSE d \in 0..9 : DigitChars[d + 1] = Head(text)))

IntOf(text) ==
    IF Head(text) = "-" THEN -DigitsValue(Tail(text), 0)
    ELSE IF Head(text) = "+" THEN DigitsValue(Tail(text), 0)
    ELSE DigitsValue(text, 0)

\* Lines 136-152: the entries read into the tokens dict one by one, or the
\* ValueError of int(value).
RECURSIVE TokensInto(_, _)
TokensInto(tokens, entries) ==
    IF entries = <<>>
    THEN Returned(IF "access_token" \in DOMAIN tokens /\ "refresh_token" \in DOMAIN tokens
                  THEN tokens ELSE NoDict)
    ELSE IF Head(entries).key = Chars("STRAVA_ACCESS_TOKEN")
    THEN TokensInto(("access_token" :> Head(entries).value) @@ tokens, Tail(entries))
    ELSE IF Head(entries).key = Chars("STRAVA_REFRESH_TOKEN")
    THEN TokensInto(("refresh_token" :> Head(entries).value) @@ tokens, Tail(entries))
    ELSE IF Head(entries).key # Chars("STRAVA_TOKEN_EXPIRES_AT")
    THEN TokensInto(tokens, Tail(entries))
    ELSE IF Head(entries).value = <<>>
    THEN TokensInto(("expires_at" :> 0) @@ tokens, Tail(entries))
    ELSE IF IsInt(Head(entries).value)
    THEN TokensInto(("expires_at" :> IntOf(Head(entries).value)) @@ tokens,
                    Tail(entries))
    ELSE Raised("ValueError")

load_tokens(file) ==
    IF file.exists THEN TokensInto(<<>>, FileEntries(file)) ELSE Returned(NoDict)

\* Lines 168-182.
RECURSIVE CredentialsInto(_, _)
CredentialsInto(credentials, entries) ==
    IF entries = <<>>
    THEN (IF "client_id" \in DOMAIN credentials /\ "client_secret" \in DOMAIN credentials
          THEN credentials ELSE NoDict)
    ELSE IF Head(entries).key = Chars("STRAVA_CLIENT_ID")
    THEN CredentialsInto(("client_id" :> Head(entries).value) @@ credentials,
                         Tail(entries))
    ELSE IF Head(entries).key = Chars("STRAVA_CLIENT_SECRET")
    THEN CredentialsInto(("client_secret" :> Head(entries).value) @@ credentials,
                         Tail(entries))
    ELSE CredentialsInto(credentials, Tail(entries))

load_credentials(file) ==
    IF file.exists THEN CredentialsInto(<<>>, FileEntries(file)) ELSE NoDict

(***************************************************************************)
(* ensure_authentication                                                   *)
(***************************************************************************)
\* Line 57: the token expires in less than 5 minutes.
AlreadyExpired(expires_at, now) == expires_at - now < 0
ExpiringSoon(expires_at, now) == expires_at - now < 300

\* A call into auth.py that reaches the token endpoint or writes the file.
AuthCall(op, ok, new_tokens) == [op |-> op, ok |-> ok, tokens |-> new_tokens]

\* Lines 67, 99 and 104: the returned tuple.
AuthTuple(tokens, credentials) ==
    [access_token |-> tokens["access_token"],
     client_id |-> credentials["client_id"],
     client_secret |-> credentials["client_secret"]]

(***************************************************************************)
(* ensure_authentication run on an env file with or without credentials    *)
(* and stored tokens, writable or not, against a token endpoint that fails *)
(* or answers with a token dict.                                           *)
(***************************************************************************)
AuthEnvFiles ==
    {NoFile}
    \cup {[exists |-> TRUE, text |-> credentials \o stored] :
             credentials \in
                 {<<>>,
                  Chars("# app\nSTRAVA_CLIENT_ID=id1\n"),
                  Chars("STRAVA_CLIENT_ID=id1\nSTRAVA_CLIENT_SECRET=s1\n")},
             stored \in
                 {<<>>,
                  Chars("STRAVA_ACCESS_TOKEN=old\n"),
                  Chars("STRAVA_ACCESS_TOKEN=old\nSTRAVA_REFRESH_TOKEN=r0\n"),
                  Chars("STRAVA_ACCESS_TOKEN=old\nSTRAVA_REFRESH_TOKEN=r0\nSTRAVA_TOKEN_EXPIRES_AT=1000\n"),
                  Chars("STRAVA_ACCESS_TOKEN=old\nSTRAVA_REFRESH_TOKEN=r0\nSTRAVA_TOKEN_EXPIRES_AT=\n"),
                  Chars("STRAVA_ACCESS_TOKEN=old\nSTRAVA_REFRESH_TOKEN=r0\nSTRAVA_TOKEN_EXPIRES_AT=soon\n")}}

\* The JSON of a successful answer of the token endpoint.
IssuedTokens(access) ==
    {[access_token |-> access, refresh_token |-> Chars("r1"), expires_at |-> 5000],
     [access_token |-> access],
     [refresh_token |-> Chars("r1"), expires_at |-> 5000]}

InitAuth ==
    /\ pc = "auth"
    /\ \E file \in AuthEnvFiles, writable \in BOOLEAN, now \in {600, 700, 701, 1500} :
          IoStart(0, file, writable, now)
    /\ EstimatorIdle
    /\ ClassifierIdle
    /\ FormatIdle
    /\ MainIdle

\* Lines 31-43.
NoCredentials ==
    /\ pc = "auth"
    /\ load_credentials(env_file) = NoDict
    /\ auth_result' = Raised("SystemExit")
    /\ pc' = "exited"
    /\ UNCHANGED <<env_file, env_writable, current_time, auth_tokens, auth_calls,
                   estimatorVars, classifierVars, formatVars, mainVars, pagingVars>>

\* Line 49: int(value) in load_tokens raises.
StoredTokensUnreadable ==
    /\ pc = "auth"
    /\ load_credentials(env_file) # NoDict
    /\ load_tokens(env_file).status = "raised"
    /\ auth_result' = load_tokens(env_file)
    /\ pc' = "auth_raised"
    /\ UNCHANGED <<env_file, env_writable, current_time, auth_tokens, auth_calls,
                   estimatorVars, classifierVars, formatVars, mainVars, pagingVars>>

\* Lines 49-52 and 74: load_tokens returns None.
NoStoredTokens ==
    /\ pc = "auth"
    /\ load_credentials(env_file) # NoDict
    /\ load_tokens(env_file).status = "returned"
    /\ load_tokens(env_file).val = NoDict
    /\ auth_tokens' = NoDict
    /\ pc' = "exchanging"
    /\ UNCHANGED <<env_file, env_writable, current_time, auth_calls, auth_result,
                   estimatorVars, classifierVars, formatVars, mainVars, pagingVars>>

\* Lines 49-58: the stored token is about to expire.
StoredTokenExpiring ==
    /\ pc = "auth"
    /\ load_credentials(env_file) # NoDict
    /\ load_tokens(env_file).status = "returned"
    /\ load_tokens(env_file).val # NoDict
    /\ ExpiringSoon(Get(load_tokens(env_file).val, "expires_at", 0), current_time)
    /\ auth_tokens' = load_tokens(env_file).val
    /\ pc' = "refreshing"
    /\ UNCHANGED <<env_file, env_writable, current_time, auth_calls, auth_result,
                   estimatorVars, classifierVars, formatVars, mainVars, pagingVars>>

\* Lines 49-57 and 104: the stored token is returned.
StoredTokenValid ==
    /\ pc = "auth"
    /\ load_credentials(env_file) # NoDict
    /\ load_tokens(env_file).status = "returned"
    /\ load_tokens(env_file).val # NoDict
    /\ ~ExpiringSoon(Get(load_tokens(env_file).val, "expires_at", 0), current_time)
    /\ auth_tokens' = load_tokens(env_file).val
    /\ auth_result' = Returned(AuthTuple(auth_tokens', load_credentials(env_file)))
    /\ pc' = "authenticated"
    /\ UNCHANGED <<env_file, env_writable, current_time, auth_calls,
                   estimatorVars, classifierVars, formatVars, mainVars, pagingVars>>

\* Lines 60-71: refresh_access_token raises, or save_tokens cannot open the
\* file for writing, or new_tokens['access_token'] raises KeyError after the
\* save; the except clause sets tokens to None.
RefreshFails ==
    /\ pc = "refreshing"
    /\ \/ /\ auth_calls' = Append(auth_calls,
                                   AuthCall("refresh_access_token", FALSE, NoDict))
          /\ UNCHANGED env_file
       \/ /\ ~env_writable
          /\ \E new_tokens \in IssuedTokens(Chars("new1")) :
                auth_calls' = auth_calls \o
                    <<AuthCall("refresh_access_token", TRUE, new_tokens),
                      AuthCall("save_tokens", FALSE, new_tokens)>>
          /\ UNCHANGED env_file
       \/ /\ env_writable
          /\ \E new_tokens \in IssuedTokens(Chars("new1")) :
                /\ "access_token" \notin DOMAIN new_tokens
                /\ auth_calls' = auth_calls \o
                       <<AuthCall("refresh_access_token", TRUE, new_tokens),
                         AuthCall("save_tokens", TRUE, new_tokens)>>
                /\ env_file' = save_tokens(new_tokens, env_file)
    /\ auth_tokens' = NoDict
    /\ pc' = "exchanging"
    /\ UNCHANGED <<env_writable, current_time, auth_result,
                   estimatorVars, classifierVars, formatVars, mainVars, pagingVars>>

\* Lines 60-67: the refreshed token is saved and returned.
RefreshReturns ==
    /\ pc = "refreshing"
    /\ env_writable
    /\ \E new_tokens \in IssuedTokens(Chars("new1")) :
          /\ "access_token" \in DOMAIN new_tokens
          /\ auth_calls' = auth_calls \o
                 <<AuthCall("refresh_access_token", TRUE, new_tokens), AuthCall("save_tokens", TRUE, new_tokens)>>
          /\ env_file' = save_tokens(new_tokens, env_file)
          /\ auth_result' = Returned(AuthTuple(new_tokens, load_credentials(env_file)))
    /\ pc' = "authenticated"
    /\ UNCHANGED <<env_writable, current_time, auth_tokens,
                   estimatorVars, classifierVars, formatVars, mainVars, pagingVars>>

\* Lines 95-102: exchange_code_for_token raises, or save_tokens cannot open
\* the file for writing, or tokens['access_token'] raises KeyError after the
\* save; the except clause exits.
ExchangeFails ==
    /\ pc = "exchanging"
    /\ \/ /\ auth_calls' = Append(auth_calls,
                                   AuthCall("exchange_code_for_token", FALSE, NoDict))
          /\ UNCHANGED <<env_file, auth_tokens>>
       \/ /\ ~env_writable
          /\ \E new_tokens \in IssuedTokens(Chars("new2")) :
                /\ auth_calls' = auth_calls \o
                       <<AuthCall("exchange_code_for_token", TRUE, new_tokens),
                         AuthCall("save_tokens", FALSE, new_tokens)>>
                /\ auth_tokens' = new_tokens
          /\ UNCHANGED env_file
       \/ /\ env_writable
          /\ \E new_tokens \in IssuedTokens(Chars("new2")) :
                /\ "access_token" \notin DOMAIN new_tokens
                /\ auth_calls' = auth_calls \o
                       <<AuthCall("exchange_code_for_token", TRUE, new_tokens),
                         AuthCall("save_tokens", TRUE, new_tokens)>>
                /\ env_file' = save_tokens(new_tokens, env_file)
                /\ auth_tokens' = new_tokens
    /\ auth_result' = Raised("SystemExit")
    /\ pc' = "exited"
    /\ UNCHANGED <<env_writable, current_time,
                   estimatorVars, classifierVars, formatVars, mainVars, pagingVars>>

\* Lines 96-99: the exchanged token is saved and returned.
ExchangeReturns ==
    /\ pc = "exchanging"
    /\ env_writable
    /\ \E new_tokens \in IssuedTokens(Chars("new2")) :
          /\ "access_token" \in DOMAIN new_tokens
          /\ auth_calls' = auth_calls \o
                 <<AuthCall("exchange_code_for_token", TRUE, new_tokens), AuthCall("save_tokens", TRUE, new_tokens)>>
          /\ env_file' = save_tokens(new_tokens, env_file)
          /\ auth_tokens' = new_tokens
          /\ auth_result' = Returned(AuthTuple(new_tokens, load_credentials(env_file)))
    /\ pc' = "authenticated"
    /\ UNCHANGED <<env_writable, current_time,
                   estimatorVars, classifierVars, formatVars, mainVars, pagingVars>>

NextAuth ==
    \/ NoCredentials
    \/ StoredTokensUnreadable
    \/ NoStoredTokens
    \/ StoredTokenExpiring
    \/ StoredTokenValid
    \/ RefreshFails
    \/ RefreshReturns
    \/ ExchangeFails
    \/ ExchangeReturns

SpecAuth == InitAuth /\ [][NextAuth]_vars

\* The returned token is the one stored in the file, which has at least 300
\* seconds left, and nothing was refreshed, exchanged or saved.
ReturnsStoredToken ==
    /\ auth_calls = <<>>
    /\ load_tokens(env_file).status = "returned"
    /\ load_tokens(env_file).val # NoDict
    /\ load_tokens(env_file).val["access_token"] = auth_result.val.access_token
    /\ Get(load_tokens(env_file).val, "expires_at", 0) - current_time >= 300

\* The returned token was issued by a successful refresh or exchange, handed
\* to a save_tokens call that completed, and is the token now in the file.
ReturnsFreshToken ==
    /\ \E i \in DOMAIN auth_calls :
          /\ i < Len(auth_calls)
          /\ auth_calls[i].op \in {"refresh_access_token", "exchange_code_for_token"}
          /\ auth_calls[i].ok
          /\ "access_token" \in DOMAIN auth_calls[i].tokens
          /\ auth_calls[i].tokens["access_token"] = auth_result.val.access_token
          /\ auth_calls[i + 1] = AuthCall("save_tokens", TRUE, auth_calls[i].tokens)
    /\ load_tokens(env_file).status = "returned"
    /\ load_tokens(env_file).val # NoDict
    /\ load_tokens(env_file).val["access_token"] = auth_result.val.access_token
    /\ auth_result.val.access_token \in {Chars("new1"), Chars("new2")}

\* A refresh that did not end in the return of its token is followed by the
\* code exchange.
FailedRefreshLeadsToExchange ==
    \A i \in DOMAIN auth_calls :
        (auth_calls[i].op = "refresh_access_token" /\ pc # "authenticated") =>
            \/ pc = "exchanging"
            \/ \E j \in DOMAIN auth_calls :
                  j > i /\ auth_calls[j].op = "exchange_code_for_token"

Authenticating == pc \in {"auth", "refreshing", "exchanging", "authenticated",
                          "exited", "auth_raised"}

\* C12: whenever ensure_authentication returns, its access token is the
\* stored token with expires_at - now >= 300 and no refresh, exchange or
\* save was performed, or a token freshly obtained from a successful
\* refresh or code exchange and written by save_tokens before the return;
\* a stored token with expires_at - now < 300 is never returned, and a
\* failed refresh always leads to the code exchange.
C12_ReturnsValidStoredOrFreshSavedToken ==
    Authenticating =>
        /\ pc = "authenticated" <=> auth_result.status = "returned"
        /\ pc = "authenticated" => (ReturnsStoredToken \/ ReturnsFreshToken)
        /\ FailedRefreshLeadsToExchange

\* The refresh failed, and the token of the code exchange was saved and
\* returned in place of the stored one.
C12_Witness ==
    /\ pc = "authenticated"
    /\ Len(auth_calls) = 3
    /\ auth_calls[1] = AuthCall("refresh_access_token", FALSE, NoDict)
    /\ auth_calls[2].op = "exchange_code_for_token"
    /\ auth_result.val.access_token = Chars("new2")

(***************************************************************************)
(* save_tokens called repeatedly on env files made of a few kinds of       *)
(* lines, with token dicts as the token endpoint may answer them: any JSON *)
(* strings, a line break inside one included.                              *)
(***************************************************************************)
RECURSIVE TextsOfChunks(_)
TextsOfChunks(n) ==
    IF n = 0 THEN {<<>>}
    ELSE {text \o chunk :
             text \in TextsOfChunks(n - 1),
             chunk \in {Chars("STRAVA_CLIENT_ID=id1\nSTRAVA_CLIENT_SECRET=s1\n"),
                        Chars("# app\nSTRAVA_CLIENT_ID=id1\n"),
                        Chars("STRAVA_ACCESS_TOKEN=old\n"),
                        Chars("STRAVA_REFRESH_TOKEN=r0\nSTRAVA_TOKEN_EXPIRES_AT=1000\n"),
                        Chars(" OTHER = v \n"),
                        Chars("STRAVA_CLIENT_ID=id2\n"),
                        Chars("novalue\n"),
                        Chars("EDITOR=vi\r\n")}}

EnvFiles ==
    {NoFile}
    \cup {[exists |-> TRUE, text |-> text] :
             text \in UNION {TextsOfChunks(n) : n \in 0..MaxChunks}}

InitEnv ==
    /\ pc = "env"
    /\ \E file \in EnvFiles : IoStart(0, file, TRUE, 0)
    /\ EstimatorIdle
    /\ ClassifierIdle
    /\ FormatIdle
    /\ MainIdle

\* auth.py lines 94-120.
SaveTokens ==
    /\ pc = "env"
    /\ Len(auth_calls) < MaxSaves
    /\ \E tokens \in IssuedTokens(Chars("new1"))
                      \cup {[access_token |-> Chars("new3\nSTRAVA_CLIENT_ID=id3"),
                             refresh_token |-> Chars("r1"),
                             expires_at |-> 5000]} :
          /\ env_file' = save_tokens(tokens, env_file)
          /\ auth_calls' = Append(auth_calls, AuthCall("save_tokens", TRUE, tokens))
    /\ UNCHANGED <<pc, env_writable, current_time, auth_tokens, auth_result,
                   estimatorVars, classifierVars, formatVars, mainVars, pagingVars>>

NextEnv == SaveTokens

SpecEnv == InitEnv /\ [][NextEnv]_vars

TokenKeys ==
    {Chars("STRAVA_ACCESS_TOKEN"), Chars("STRAVA_REFRESH_TOKEN"),
     Chars("STRAVA_TOKEN_EXPIRES_AT")}

\* The value a reader of the file finds for a key: that of its last line.
LastOf(entries, key) ==
    entries[CHOOSE i \in DOMAIN entries :
                /\ entries[i].key = key
                /\ \A j \in DOMAIN entries : j > i => entries[j].key # key].value

\* The KEY=VALUE entries of the file other than the three token entries.
OtherEntries(file) ==
    {[key |-> k, value |-> LastOf(FileEntries(file), k)] :
        k \in {FileEntries(file)[i].key : i \in DOMAIN FileEntries(file)} \ TokenKeys}

\* C13: save_tokens changes only the entries STRAVA_ACCESS_TOKEN,
\* STRAVA_REFRESH_TOKEN and STRAVA_TOKEN_EXPIRES_AT of the env file: every
\* other KEY=VALUE entry keeps its value over every save_tokens call, and
\* load_credentials returns the same before and after.
C13_OnlyTokenEntriesChange ==
    [][pc = "env" =>
          /\ OtherEntries(env_file') = OtherEntries(env_file)
          /\ load_credentials(env_file') = load_credentials(env_file)]_vars

=============================================================================
